---- MODULE Spec2Model ----
(***************************************************************************)
(* The note state-synchronization layer of my-app: the NoteApp component   *)
(* in its two variants, the one backed by the remote store                 *)
(* (src/src/components/note-app.tsx) and the in-memory one                 *)
(* (src/unnamed/part_000), together with the NoteEditor that feeds         *)
(* handleNoteUpdate.                                                       *)
(*                                                                         *)
(* A handler is a closure of the render that created it: after its await   *)
(* it still reads the `notes` and `selectedNoteId` of that render.  Each   *)
(* request in flight therefore carries the values it captured (capNotes,   *)
(* capSel).  The state updates a handler makes after its await are applied *)
(* in one step (one batched render).                                       *)
(***************************************************************************)
EXTENDS Integers, Sequences, FiniteSets, TLC

VARIABLES
    variant,         \* "remote" (note-app.tsx) or "local" (part_000)
    notes,           \* useState<Note[]>
    selectedNoteId,  \* useState<string | null>; 0 stands for null
    loading,         \* useState(true), remote variant
    editedNote,      \* NoteEditor's useState<Note>(note); NoNote when unmounted
    reqs,            \* the adapter calls made so far, by call number
    remote,          \* the rows of the remote 'notes' table, newest first
    nextId,          \* the remote store's next id / created_at
    clock,           \* Date.now(), in-memory variant
    serial,          \* history: no call was made while another was in flight
    last             \* history: the step just taken and the state before it

vars == <<variant, notes, selectedNoteId, loading, editedNote, reqs, remote,
          nextId, clock, serial, last>>

-----------------------------------------------------------------------------
(* Bounds *)

MaxReqs == 3       \* calls in one run in which calls overlap
MaxSerial == 4     \* calls in one run in which each ends before the next
MaxInFlight == 2   \* adapter calls awaiting their response at one time
MaxStored == 1     \* rows in the remote table when the component mounts
MaxTicks == 1      \* clock ticks after mount, in-memory variant

-----------------------------------------------------------------------------
(* Data *)

Now0 == 10

NoNote == [id |-> 0, title |-> "", content |-> "", category |-> "",
           created_at |-> 0, ref |-> 0]

categories == {"Uncategorized", "Work", "Personal", "Ideas", "Inspiration"}

\* The values the editor's inputs are given, one per field.
FieldInputs == [title |-> {"Edited"}, category |-> {"Work"}]

EditFields == {"title", "category"}

\* A row the remote table holds when the component mounts.
StoredRow(i) == [id |-> i, title |-> "New Note", content |-> "",
                 category |-> "Uncategorized", created_at |-> i, ref |-> 0]

StoredRows(k) == [j \in 1..k |-> StoredRow(k + 1 - j)]

InitialNotes ==
    << [id |-> 1, title |-> "Cosmic Thoughts",
        content |-> "The universe is vast and full of wonders waiting to be discovered.",
        category |-> "Inspiration", created_at |-> Now0, ref |-> 0],
       [id |-> 2, title |-> "Project Nebula",
        content |-> "Ideas for the new space visualization project.",
        category |-> "Work", created_at |-> Now0 - 1, ref |-> 0],
       [id |-> 3, title |-> "Stargazing Locations",
        content |-> "Best spots for viewing the night sky:\n- Mountain viewpoint\n- Desert observatory\n- Lakeside clearing",
        category |-> "Personal", created_at |-> Now0 - 2, ref |-> 0] >>

Ids(ns) == {ns[i].id : i \in 1..Len(ns)}

\* An object the component builds from a row keeps the row's fields; ref names
\* the call that built the object (object identity, which the editor's effect
\* compares).
Obj(row, r) == [row EXCEPT !.ref = r]

Row(note) == [note EXCEPT !.ref = 0]

-----------------------------------------------------------------------------
(* Pure parts of the handlers *)

\* notes.find((note) => note.id === selectedNoteId) || null
SelectedNoteOf(ns, sel) ==
    IF \E i \in 1..Len(ns) : ns[i].id = sel
    THEN ns[CHOOSE i \in 1..Len(ns) :
                /\ ns[i].id = sel
                /\ \A j \in 1..(i - 1) : ns[j].id # sel]
    ELSE NoNote

selectedNote == SelectedNoteOf(notes, selectedNoteId)

\* if (data.length > 0 && !selectedNoteId) setSelectedNoteId(data[0].id)
LoadSelection(capSel, sel, data) ==
    IF Len(data) > 0 /\ capSel = 0 THEN data[1].id ELSE sel

\* A mutant of LoadNotes: the loaded notes are added to the collection.
LoadNotesMerged(capNotes, data) == data \o capNotes

\* setNotes(data)
LoadNotes(capNotes, data) == data

\* A mutant of CreateNotes: the new note is put at the end of the collection.
CreateNotesAppended(capNotes, data) == capNotes \o <<data>>

\* setNotes([data, ...notes])
CreateNotes(capNotes, data) == <<data>> \o capNotes

\* A mutant of UpdateNotes: the response of an update is not applied to the
\* collection.
UpdateNotesUnapplied(capNotes, updatedNote) == capNotes

\* notes.map((note) => (note.id === updatedNote.id ? updatedNote : note))
UpdateNotes(capNotes, updatedNote) ==
    [i \in 1..Len(capNotes) |->
        IF capNotes[i].id = updatedNote.id THEN updatedNote ELSE capNotes[i]]

\* notes.filter((note) => note.id !== id)
DeleteNotes(capNotes, id) == SelectSeq(capNotes, LAMBDA n : n.id # id)

\* if (selectedNoteId === id) setSelectedNoteId(notes.length > 0 ? notes[0].id : null)
DeleteSelection(capNotes, capSel, sel, id) ==
    IF capSel = id
    THEN (IF Len(capNotes) > 0 THEN capNotes[1].id ELSE 0)
    ELSE sel

\* const newNote = { title: "New Note", content: "", category: "Uncategorized" }
newNote == [id |-> 0, title |-> "New Note", content |-> "",
            category |-> "Uncategorized", created_at |-> 0, ref |-> 0]

\* A mutant of Throws: the check of the adapter's error is left out.
NeverThrows(req) == FALSE

\* if (error) throw error
Throws(req) == req.phase = "err"

\* if (data): the client returns data exactly when it returns no error
HasData(req) == req.phase = "ok"

\* catch (error) { console.error(...) }: one call for a call that threw
Logged(req) == IF Throws(req) THEN 1 ELSE 0

\* The NoteEditor after a render: mounted only while a note is selected (and
\* the loading screen is not shown); useState(note) on mount, and the effect
\* on [note] copies the prop whenever it is another object.
EditorAfter(n0, s0, l0, e0, n1, s1, l1) ==
    LET old == IF l0 THEN NoNote ELSE SelectedNoteOf(n0, s0)
        new == IF l1 THEN NoNote ELSE SelectedNoteOf(n1, s1)
    IN  IF new = NoNote THEN NoNote
        ELSE IF old = NoNote THEN new
        ELSE IF new # old THEN new
        ELSE e0

-----------------------------------------------------------------------------
(* Adapter calls *)

Req(kind, id, note) ==
    [kind |-> kind, phase |-> "sent", capNotes |-> notes,
     capSel |-> selectedNoteId, argId |-> id, argNote |-> note,
     data |-> <<>>, sends |-> 1]

\* A mutant of Done: a call that failed is sent again, once.
Retried(req) ==
    IF req.phase = "err" /\ req.sends < 2
    THEN [req EXCEPT !.phase = "sent", !.sends = req.sends + 1]
    ELSE [req EXCEPT !.kind = "", !.phase = "done", !.capNotes = <<>>,
                     !.capSel = 0, !.argId = 0, !.argNote = NoNote,
                     !.data = <<>>]

\* A call whose handler has returned: its closure is gone.
Done(req) ==
    [req EXCEPT !.kind = "", !.phase = "done", !.capNotes = <<>>, !.capSel = 0,
                !.argId = 0, !.argNote = NoNote, !.data = <<>>]

Applied == {"load", "create", "update", "delete"}

InFlight == {r \in 1..Len(reqs) : reqs[r].phase # "done"}

CanIssue ==
    \/ Len(reqs) < MaxReqs /\ Cardinality(InFlight) < MaxInFlight
    \/ serial /\ InFlight = {} /\ Len(reqs) < MaxSerial

-----------------------------------------------------------------------------
(* History: what the step just taken was.  It records; no handler reads it. *)

Off == 0 - 1

\* Two loads in succession against an unchanged remote table: 1 after a load
\* has succeeded, 2 once fetchNotes is called next, 3 once the table, equal to
\* what the first load returned, is listed for it, 4 when that second load has
\* succeeded with nothing else in between.
Pair(op, r, ok) ==
    CASE op = "load" /\ ok ->
            IF last.pair = 3 /\ last.rid = r THEN 4 ELSE 1
      [] op = "fetchNotes" ->
            IF last.op = "load" /\ last.ok THEN 2 ELSE 0
      [] op = "adapter" /\ ok ->
            IF /\ last.pair = 2 /\ last.rid = r
               /\ remote = [i \in 1..Len(last.pnotes) |-> Row(last.pnotes[i])]
            THEN 3 ELSE 0
      [] OTHER -> 0

PNotes(op, r, ok) ==
    CASE Pair(op, r, ok) = 2 -> notes
      [] Pair(op, r, ok) \in {3, 4} -> last.pnotes
      [] OTHER -> <<>>

\* The scenario "empty remote store, load, create, create, delete the second
\* created note", every call succeeding and ending before the next is made:
\* the number of its calls that have ended, or Off once the run has left it.
Scn(op, ok, id) ==
    LET s == last.scn
    IN  CASE s = Off -> Off
          [] op = "load" -> IF ok /\ s = 0 THEN 1 ELSE Off
          [] op = "handleNoteCreate" ->
                IF s \in {1, 2} /\ InFlight = {} THEN s ELSE Off
          [] op = "create" -> IF ok /\ s \in {1, 2} THEN s + 1 ELSE Off
          [] op = "handleNoteDelete" ->
                IF s = 3 /\ InFlight = {} /\ Len(notes) > 0 /\ id = notes[1].id
                THEN s ELSE Off
          [] op = "delete" -> IF ok /\ s = 3 THEN 4 ELSE Off
          [] op = "adapter" -> IF ok THEN s ELSE Off
          [] OTHER -> Off

\* Calls that overlap: when the successful response of a create or an update
\* is applied while other calls of the same handler (for an update: for the
\* same note) are still in flight, each of those calls is kept with the id of
\* the note the applied response was about, until it has ended itself.
Ovl(op, r, ok, id) ==
    LET keep == {p \in last.ovl : p[1] # r}
        others == {q \in InFlight \ {r} :
                      /\ reqs[q].kind = op
                      /\ op = "update" => reqs[q].argId = id}
    IN  IF op \notin Applied THEN last.ovl
        ELSE IF ok /\ op \in {"create", "update"}
             THEN keep \cup {<<q, id>> : q \in others}
             ELSE keep

\* The step applies the successful response of the later of two such calls.
Second(op, r, ok) ==
    /\ op \in {"create", "update"}
    /\ ok
    /\ \E p \in last.ovl : p[1] = r

\* The collection held the rows of the remote table when the adapter took up
\* call r; kept until the response of that call is applied.
Sync(op, r) ==
    CASE op = "adapter" -> [i \in 1..Len(notes) |-> Row(notes[i])] = remote
      [] op \in Applied -> last.op = "adapter" /\ last.rid = r /\ last.sync
      [] OTHER -> FALSE

\* The state before the step is kept only for the steps that end a handler;
\* errs counts the console.error calls of the step.
Ev(op, r, ok, id, errs) ==
    [op |-> op, rid |-> r, ok |-> ok, id |-> id, errs |-> errs,
     notes0 |-> IF op \in Applied THEN notes ELSE <<>>,
     sel0 |-> IF op \in Applied THEN selectedNoteId ELSE 0,
     pair |-> Pair(op, r, ok), pnotes |-> PNotes(op, r, ok),
     scn |-> Scn(op, ok, id),
     ovl |-> Ovl(op, r, ok, id), second |-> Second(op, r, ok),
     sync |-> Sync(op, r)]

Mounted(r, scn) ==
    [op |-> "mount", rid |-> r, ok |-> TRUE, id |-> 0, errs |-> 0,
     notes0 |-> <<>>, sel0 |-> 0, pair |-> 0, pnotes |-> <<>>, scn |-> scn,
     ovl |-> {}, second |-> FALSE, sync |-> FALSE]

-----------------------------------------------------------------------------
(* Initial state *)

InitRemote ==
    /\ variant = "remote"
    /\ notes = <<>>
    /\ selectedNoteId = 0
    /\ loading = TRUE
    /\ editedNote = NoNote
    /\ \E k \in 0..MaxStored : remote = StoredRows(k) /\ nextId = k + 1
    \* useEffect(() => { fetchNotes() }, []) has run: the first call is out
    /\ reqs = << [kind |-> "load", phase |-> "sent", capNotes |-> <<>>,
                  capSel |-> 0, argId |-> 0, argNote |-> NoNote,
                  data |-> <<>>, sends |-> 1] >>
    /\ clock = Now0
    /\ serial = TRUE
    /\ last = Mounted(1, IF remote = <<>> THEN 0 ELSE Off)

InitLocal ==
    /\ variant = "local"
    /\ notes = InitialNotes
    /\ selectedNoteId = 1
    /\ loading = FALSE
    /\ editedNote = InitialNotes[1]
    /\ remote = <<>>
    /\ nextId = 1
    /\ reqs = <<>>
    /\ clock = Now0
    /\ serial = TRUE
    /\ last = Mounted(0, Off)

Init == InitRemote \/ InitLocal

-----------------------------------------------------------------------------
(* Steps shared by the handlers *)

\* One batched render after a handler's state updates: notes, selectedNoteId and
\* loading take their new values and the editor follows.
Render(n1, s1, l1) ==
    /\ notes' = n1
    /\ selectedNoteId' = s1
    /\ loading' = l1
    /\ editedNote' = EditorAfter(notes, selectedNoteId, loading, editedNote,
                                 n1, s1, l1)

\* A mutant of Issue: a delete takes the note out of the collection at once,
\* before the adapter has answered.
IssueOptimistic(kind, id, note) ==
    /\ CanIssue
    /\ reqs' = Append(reqs, Req(kind, id, note))
    /\ serial' = (serial /\ InFlight = {})
    /\ notes' = IF kind = "delete" THEN DeleteNotes(notes, id) ELSE notes
    /\ UNCHANGED <<variant, selectedNoteId, loading, remote, nextId, clock>>

\* A handler up to its await: the call goes out, carrying what the closure
\* holds; no state is set.
Issue(kind, id, note) ==
    /\ CanIssue
    /\ reqs' = Append(reqs, Req(kind, id, note))
    /\ serial' = (serial /\ InFlight = {})
    /\ UNCHANGED <<variant, notes, selectedNoteId, loading, remote, nextId, clock>>

\* What the user can reach: nothing but the loading screen while loading.
Shown == ~loading

-----------------------------------------------------------------------------
(* The remote store behind the supabase client *)

Pending(r, kind) ==
    /\ r \in 1..Len(reqs)
    /\ reqs[r].kind = kind
    /\ reqs[r].phase = "sent"

Answer(r, data) ==
    /\ reqs' = [reqs EXCEPT ![r].phase = "ok", ![r].data = data]
    /\ last' = Ev("adapter", r, TRUE, reqs[r].argId, 0)
    /\ UNCHANGED <<variant, notes, selectedNoteId, loading, editedNote, clock,
                   serial>>

\* .from('notes').select('*').order('created_at', { ascending: false })
adapterList(r) ==
    /\ Pending(r, "load")
    /\ Answer(r, remote)
    /\ UNCHANGED <<remote, nextId>>

\* .from('notes').insert([newNote]).select().single()
adapterInsert(r) ==
    /\ Pending(r, "create")
    /\ LET row == [reqs[r].argNote EXCEPT !.id = nextId, !.created_at = nextId]
       IN  /\ remote' = <<row>> \o remote
           /\ nextId' = nextId + 1
           /\ Answer(r, <<row>>)

\* .from('notes').update(updatedNote).eq('id', updatedNote.id)
adapterUpdate(r) ==
    /\ Pending(r, "update")
    /\ remote' = [i \in 1..Len(remote) |->
                    IF remote[i].id = reqs[r].argId
                    THEN Row(reqs[r].argNote) ELSE remote[i]]
    /\ Answer(r, <<>>)
    /\ UNCHANGED nextId

\* .from('notes').delete().eq('id', id)
adapterDelete(r) ==
    /\ Pending(r, "delete")
    /\ remote' = SelectSeq(remote, LAMBDA row : row.id # reqs[r].argId)
    /\ Answer(r, <<>>)
    /\ UNCHANGED nextId

\* The call comes back with an error: the table is as it was.
adapterError(r) ==
    /\ r \in 1..Len(reqs)
    /\ reqs[r].phase = "sent"
    /\ reqs' = [reqs EXCEPT ![r].phase = "err"]
    /\ last' = Ev("adapter", r, FALSE, reqs[r].argId, 0)
    /\ UNCHANGED <<variant, notes, selectedNoteId, loading, editedNote, remote,
                   nextId, clock, serial>>

-----------------------------------------------------------------------------
(* NoteApp, remote variant: src/src/components/note-app.tsx *)

\* fetchNotes up to its await: called again from the current render.
fetchNotes ==
    /\ variant = "remote"
    /\ Issue("load", 0, NoNote)
    /\ last' = Ev("fetchNotes", Len(reqs) + 1, TRUE, 0, 0)
    /\ UNCHANGED editedNote

\* A mutant of fetchNotesDone: no finally block, setLoading(false) is reached
\* only when the load did not throw.
fetchNotesDoneNoFinally(r) ==
    /\ r \in 1..Len(reqs)
    /\ reqs[r].kind = "load"
    /\ reqs[r].phase \in {"ok", "err"}
    /\ LET req == reqs[r]
           data == [i \in 1..Len(req.data) |-> Obj(req.data[i], r)]
       IN  /\ IF Throws(req) \/ ~HasData(req)
              THEN Render(notes, selectedNoteId, loading)
              ELSE Render(LoadNotes(req.capNotes, data),
                          LoadSelection(req.capSel, selectedNoteId, data),
                          FALSE)
           /\ reqs' = [reqs EXCEPT ![r] = Done(req)]
           /\ last' = Ev("load", r, req.phase = "ok", 0, Logged(req))
    /\ UNCHANGED <<variant, remote, nextId, clock, serial>>

\* fetchNotes from its await on.
fetchNotesDone(r) ==
    /\ r \in 1..Len(reqs)
    /\ reqs[r].kind = "load"
    /\ reqs[r].phase \in {"ok", "err"}
    /\ LET req == reqs[r]
           data == [i \in 1..Len(req.data) |-> Obj(req.data[i], r)]
       IN  /\ IF Throws(req) \/ ~HasData(req)
              THEN Render(notes, selectedNoteId, FALSE)
              ELSE Render(LoadNotes(req.capNotes, data),
                          LoadSelection(req.capSel, selectedNoteId, data),
                          FALSE)
           /\ reqs' = [reqs EXCEPT ![r] = Done(req)]
           /\ last' = Ev("load", r, req.phase = "ok", 0, Logged(req))
    /\ UNCHANGED <<variant, remote, nextId, clock, serial>>

\* handleNoteSelect(id)
handleNoteSelect(id) ==
    /\ Render(notes, id, loading)
    /\ last' = Ev("select", 0, TRUE, id, 0)
    /\ UNCHANGED <<variant, reqs, remote, nextId, clock, serial>>

\* onClick={() => handleNoteSelect(note.id)} on an entry of the rendered list
clickNote ==
    /\ Shown
    /\ \E id \in Ids(notes) : handleNoteSelect(id)

\* handleNoteCreate up to its await
handleNoteCreate ==
    /\ variant = "remote"
    /\ Shown
    /\ Issue("create", 0, newNote)
    /\ last' = Ev("handleNoteCreate", Len(reqs) + 1, TRUE, 0, 0)
    /\ UNCHANGED editedNote

\* handleNoteCreate from its await on
handleNoteCreateDone(r) ==
    /\ r \in 1..Len(reqs)
    /\ reqs[r].kind = "create"
    /\ reqs[r].phase \in {"ok", "err"}
    /\ LET req == reqs[r]
       IN  /\ IF Throws(req) \/ ~HasData(req)
              THEN Render(notes, selectedNoteId, loading)
              ELSE LET data == Obj(req.data[1], r)
                   IN  Render(CreateNotes(req.capNotes, data), data.id, loading)
           /\ reqs' = [reqs EXCEPT ![r] = Done(req)]
           /\ last' = Ev("create", r, req.phase = "ok",
                         IF req.phase = "ok" THEN req.data[1].id ELSE 0,
                         Logged(req))
    /\ UNCHANGED <<variant, remote, nextId, clock, serial>>

\* handleNoteUpdate(updatedNote) up to its await
handleNoteUpdate(updatedNote) ==
    /\ variant = "remote"
    /\ Issue("update", updatedNote.id, updatedNote)
    /\ last' = Ev("handleNoteUpdate", Len(reqs) + 1, TRUE, updatedNote.id, 0)

\* A mutant of handleNoteUpdateDone: the payload is mapped into the collection
\* as it is when the response is applied, setNotes(prev => prev.map(...)), so a
\* note that is gone stays gone.
handleNoteUpdateDoneCurrent(r) ==
    /\ r \in 1..Len(reqs)
    /\ reqs[r].kind = "update"
    /\ reqs[r].phase \in {"ok", "err"}
    /\ LET req == reqs[r]
       IN  /\ IF Throws(req)
              THEN Render(notes, selectedNoteId, loading)
              ELSE Render(UpdateNotes(notes, req.argNote),
                          selectedNoteId, loading)
           /\ reqs' = [reqs EXCEPT ![r] = Done(req)]
           /\ last' = Ev("update", r, req.phase = "ok", req.argId, Logged(req))
    /\ UNCHANGED <<variant, remote, nextId, clock, serial>>

\* handleNoteUpdate from its await on
handleNoteUpdateDone(r) ==
    /\ r \in 1..Len(reqs)
    /\ reqs[r].kind = "update"
    /\ reqs[r].phase \in {"ok", "err"}
    /\ LET req == reqs[r]
       IN  /\ IF Throws(req)
              THEN Render(notes, selectedNoteId, loading)
              ELSE Render(UpdateNotes(req.capNotes, req.argNote),
                          selectedNoteId, loading)
           /\ reqs' = [reqs EXCEPT ![r] = Done(req)]
           /\ last' = Ev("update", r, req.phase = "ok", req.argId, Logged(req))
    /\ UNCHANGED <<variant, remote, nextId, clock, serial>>

\* handleNoteDelete(id) up to its await, from the delete button of an entry of
\* the rendered list
handleNoteDelete ==
    /\ variant = "remote"
    /\ Shown
    /\ \E id \in Ids(notes) :
          /\ Issue("delete", id, NoNote)
          /\ last' = Ev("handleNoteDelete", Len(reqs) + 1, TRUE, id, 0)
    /\ UNCHANGED editedNote

\* handleNoteDelete from its await on
handleNoteDeleteDone(r) ==
    /\ r \in 1..Len(reqs)
    /\ reqs[r].kind = "delete"
    /\ reqs[r].phase \in {"ok", "err"}
    /\ LET req == reqs[r]
       IN  /\ IF Throws(req)
              THEN Render(notes, selectedNoteId, loading)
              ELSE Render(DeleteNotes(req.capNotes, req.argId),
                          DeleteSelection(req.capNotes, req.capSel,
                                          selectedNoteId, req.argId),
                          loading)
           /\ reqs' = [reqs EXCEPT ![r] = Done(req)]
           /\ last' = Ev("delete", r, req.phase = "ok", req.argId, Logged(req))
    /\ UNCHANGED <<variant, remote, nextId, clock, serial>>

-----------------------------------------------------------------------------
(* NoteApp, in-memory variant: src/unnamed/part_000 *)

\* A handler of the in-memory variant runs to its end in one step and makes no
\* adapter call; it is counted among the calls of the run.
Call(kind, id) ==
    [kind |-> "", phase |-> "done", capNotes |-> <<>>, capSel |-> 0,
     argId |-> 0, argNote |-> NoNote, data |-> <<>>, sends |-> 0]

LocalStep(kind, id, n1, s1) ==
    /\ variant = "local"
    /\ CanIssue
    /\ Render(n1, s1, loading)
    /\ reqs' = Append(reqs, Call(kind, id))
    /\ last' = Ev(kind, Len(reqs) + 1, TRUE, id, 0)
    /\ UNCHANGED <<variant, remote, nextId, clock, serial>>

\* Date.now() moves on between two events.
Tick ==
    /\ variant = "local"
    /\ clock < Now0 + MaxTicks
    /\ clock' = clock + 1
    /\ last' = Ev("tick", 0, TRUE, 0, 0)
    /\ UNCHANGED <<variant, notes, selectedNoteId, loading, editedNote, reqs,
                   remote, nextId, serial>>

handleNoteCreateLocal ==
    LET made == [newNote EXCEPT !.id = clock, !.created_at = clock]
    IN  LocalStep("create", made.id, CreateNotes(notes, made), made.id)

handleNoteUpdateLocal(updatedNote) ==
    LocalStep("update", updatedNote.id, UpdateNotes(notes, updatedNote),
              selectedNoteId)

handleNoteDeleteLocal ==
    \E id \in Ids(notes) :
        LocalStep("delete", id, DeleteNotes(notes, id),
                  DeleteSelection(notes, selectedNoteId, selectedNoteId, id))

-----------------------------------------------------------------------------
(* NoteEditor *)

\* handleChange(field, value): the editor's copy with one field replaced goes
\* to onUpdateNote.
handleChange ==
    /\ Shown
    /\ editedNote # NoNote
    /\ \E field \in EditFields : \E value \in FieldInputs[field] :
          LET updatedNote == [editedNote EXCEPT
                                ![field] = value,
                                !.ref = IF variant = "remote"
                                        THEN Len(reqs) + 1 ELSE 0]
          IN  /\ editedNote[field] # value
              /\ IF variant = "remote"
                 THEN /\ handleNoteUpdate(updatedNote)
                      /\ editedNote' = updatedNote
                 ELSE handleNoteUpdateLocal(updatedNote)

-----------------------------------------------------------------------------
(* Specifications *)

\* The component as the user drives it.
Next ==
    \/ clickNote
    \/ handleNoteCreate
    \/ handleChange
    \/ handleNoteDelete
    \/ \E r \in 1..Len(reqs) : adapterList(r)
    \/ \E r \in 1..Len(reqs) : adapterInsert(r)
    \/ \E r \in 1..Len(reqs) : adapterUpdate(r)
    \/ \E r \in 1..Len(reqs) : adapterDelete(r)
    \/ \E r \in 1..Len(reqs) : adapterError(r)
    \/ \E r \in 1..Len(reqs) : fetchNotesDone(r)
    \/ \E r \in 1..Len(reqs) : handleNoteCreateDone(r)
    \/ \E r \in 1..Len(reqs) : handleNoteUpdateDone(r)
    \/ \E r \in 1..Len(reqs) : handleNoteDeleteDone(r)
    \/ Tick
    \/ handleNoteCreateLocal
    \/ handleNoteDeleteLocal

Spec == Init /\ [][Next]_vars

\* fetchNotes called again once no call is in flight: loads in succession.
fetchNotesAgain ==
    /\ InFlight = {}
    /\ fetchNotes

NextReload ==
    \/ Next
    \/ fetchNotesAgain

SpecReload == Init /\ [][NextReload]_vars

\* The adapter answers the load the mount effect sent, and the continuation
\* of that fetchNotes call runs once its await has settled.
adapterResponds ==
    \/ adapterList(1)
    \/ adapterError(1)

fetchNotesResumes == fetchNotesDone(1)

SpecReloadFair ==
    /\ SpecReload
    /\ WF_vars(adapterResponds)
    /\ WF_vars(fetchNotesResumes)

\* fetchNotes called again at any time, also while the first call is in flight
\* (the mount effect run twice).
NextRefetch ==
    \/ Next
    \/ fetchNotes

SpecRefetch == Init /\ [][NextRefetch]_vars

IdSpace == IF variant = "remote" THEN 1..nextId ELSE {1, 2, 3, clock}

\* handleNoteSelect called with an id of the caller's choosing.
selectAny ==
    \E id \in IdSpace : handleNoteSelect(id)

\* handleNoteUpdate called with a note of the caller's making.
updateAny ==
    \E id \in IdSpace :
        LET updatedNote == [newNote EXCEPT !.id = id, !.title = "Edited",
                                          !.created_at = id]
        IN  IF variant = "remote"
            THEN handleNoteUpdate(updatedNote) /\ UNCHANGED editedNote
            ELSE handleNoteUpdateLocal(updatedNote)

NextApi ==
    \/ Next
    \/ selectAny
    \/ updateAny

SpecApi == Init /\ [][NextApi]_vars

-----------------------------------------------------------------------------
(* Properties *)

Valid(sel, ns) == sel = 0 \/ sel \in Ids(ns)

IdSeq(ns) == [i \in 1..Len(ns) |-> ns[i].id]

First(ns) == IF Len(ns) = 0 THEN NoNote ELSE ns[1]

\* C1: in every reachable state selectedNoteId is null or the id of a note of
\* the collection, also right after a successful delete.
C1_SelectionValid == Valid(selectedNoteId, notes)

\* C2: once a successful delete of the selected note is applied, selectedNote
\* is the first note of the remaining collection, or absent if none remains.
C2_DeleteSelectedMovesToFirst ==
    (/\ last.op = "delete" /\ last.ok
     /\ last.sel0 = last.id
     /\ last.id \in Ids(last.notes0))
    => selectedNote = First(notes)

\* C3: from an empty remote store, load, create, create and delete of the
\* second created note, each ending before the next starts, pass through
\* notes=[] with no selected note, notes=[N1] with N1 selected and
\* Uncategorized, notes=[N2,N1] with N2 selected, and end in notes=[N1] with N1
\* selected.
C3_Scenario ==
    /\ last.scn = 1 => notes = <<>> /\ selectedNote = NoNote
    /\ last.scn = 2 =>
          /\ Len(notes) = 1
          /\ selectedNote = notes[1]
          /\ notes[1].category = "Uncategorized"
    /\ last.scn = 3 =>
          /\ Len(notes) = 2
          /\ notes[1].id # notes[2].id
          /\ notes[2].created_at < notes[1].created_at
          /\ selectedNote = notes[1]
    /\ last.scn = 4 =>
          /\ notes = <<last.notes0[2]>>
          /\ selectedNote = notes[1]

\* C4: handleNoteSelect with an id of no note of the collection changes neither
\* selectedNoteId nor the collection and makes no adapter call.
C4_SelectUnknownIsNoOp ==
    [][(last'.op = "select" /\ last'.id \notin Ids(notes))
        => UNCHANGED <<selectedNoteId, notes, reqs>>]_vars

\* C5: when the adapter call of a load, create, update or delete fails, the
\* collection and selectedNoteId after the failure is handled are those of just
\* before.
C5_FailureLeavesState ==
    (last.op \in Applied /\ ~last.ok)
    => notes = last.notes0 /\ selectedNoteId = last.sel0

\* a failed update of a note of the collection has been handled
C5_Witness ==
    /\ last.op = "update" /\ ~last.ok
    /\ last.id \in Ids(notes)
    /\ last.id = selectedNoteId

\* C6: an update whose adapter request fails logs the error exactly once, is
\* not sent again and leaves notes unchanged.
C6_FailedUpdateLogsOnce ==
    (last.op = "update" /\ ~last.ok)
    => /\ last.errs = 1
       /\ reqs[last.rid].phase = "done"
       /\ reqs[last.rid].sends = 1
       /\ notes = last.notes0

\* a failed update has been handled while the collection holds notes
C6_Witness ==
    /\ last.op = "update" /\ ~last.ok
    /\ Len(notes) > 0

\* C7: a second load right after a first, against the same remote rows, leaves
\* the collection as the first load left it, and leaves selectedNoteId alone
\* when it names a note of the collection.
C7_LoadTwice ==
    (last.op = "load" /\ last.ok /\ last.pair = 4)
    => /\ IdSeq(notes) = IdSeq(last.pnotes)
       /\ [i \in 1..Len(notes) |-> Row(notes[i])]
            = [i \in 1..Len(last.pnotes) |-> Row(last.pnotes[i])]
       /\ notes = [i \in 1..Len(last.notes0) |-> Obj(last.notes0[i], last.rid)]
       /\ (last.sel0 \in Ids(last.notes0) => selectedNoteId = last.sel0)

\* the second of two loads in succession has been applied, with a note other
\* than the first one selected
C7_Witness ==
    /\ last.op = "load" /\ last.ok /\ last.pair = 4
    /\ Len(notes) > 1
    /\ selectedNoteId = notes[2].id

NewestFirst(ns) ==
    \A i \in 1..Len(ns) : \A j \in (i + 1)..Len(ns) :
        ns[i].created_at >= ns[j].created_at

\* C8: the collection is in creation order, newest first, in every reachable
\* state, and a successful update leaves every note at its position.
C8_OrderKept ==
    /\ NewestFirst(notes)
    /\ (last.op = "update" /\ last.ok) => IdSeq(notes) = IdSeq(last.notes0)

\* C9: a successful load makes the collection the rows the adapter returned;
\* with no note selected it selects the first returned note, if any; with a
\* note selected it leaves selectedNoteId alone.
C9_LoadApplied ==
    [][\A r \in 1..Len(reqs) :
          (reqs[r].kind = "load" /\ reqs[r].phase = "ok" /\ reqs'[r].phase = "done")
          => /\ [i \in 1..Len(notes') |-> Row(notes'[i])] = reqs[r].data
             /\ selectedNoteId = 0 =>
                   selectedNoteId' = First(reqs[r].data).id
             /\ selectedNoteId # 0 => selectedNoteId' = selectedNoteId]_vars

\* C10: a successful create puts the new note in front of the notes that were
\* in the collection just before, selects it, and the new note is titled
\* "New Note", empty and Uncategorized.
C10_CreateApplied ==
    (last.op = "create" /\ last.ok)
    => /\ Len(notes) = Len(last.notes0) + 1
       /\ Tail(notes) = last.notes0
       /\ notes[1].id = last.id
       /\ selectedNoteId = last.id
       /\ notes[1].title = "New Note"
       /\ notes[1].content = ""
       /\ notes[1].category = "Uncategorized"

\* C11: handleNoteUpdate with a note whose id is the id of no note of the
\* collection changes neither the collection nor selectedNoteId and sends no
\* request to the adapter.
C11_UpdateUnknownIsNoOp ==
    [][/\ (last'.op = "handleNoteUpdate" /\ last'.id \notin Ids(notes))
          => UNCHANGED <<notes, selectedNoteId, reqs>>
       /\ (variant = "local" /\ last'.op = "update"
            /\ last'.id \notin Ids(notes))
          => UNCHANGED <<notes, selectedNoteId>>]_vars

\* C12: in every reachable state no two notes of the collection have the same
\* id.
C12_UniqueIds ==
    \A i \in 1..Len(notes) : \A j \in 1..Len(notes) :
        i # j => notes[i].id # notes[j].id

\* C13: when the response of a successful update is applied, the collection
\* keeps its length and its ids at their positions, the note with the payload's
\* id becomes the payload, every other note keeps its value, and selectedNoteId
\* is unchanged, whatever else happened while the update was in flight.
C13_UpdateApplied ==
    [][\A r \in 1..Len(reqs) :
          (reqs[r].kind = "update" /\ reqs[r].phase = "ok"
           /\ reqs'[r].phase = "done")
          => /\ IdSeq(notes') = IdSeq(notes)
             /\ \A i \in 1..Len(notes) :
                   Row(notes'[i]) = IF notes[i].id = reqs[r].argId
                                    THEN Row(reqs[r].argNote)
                                    ELSE Row(notes[i])
             /\ selectedNoteId' = selectedNoteId]_vars

\* C14: from the call of handleNoteCreate, handleNoteUpdate or handleNoteDelete
\* until the adapter's response has arrived, the call changes neither the
\* collection nor selectedNoteId: no new note is added, the edited note keeps
\* its old value and the note to delete stays.
C14_NothingBeforeResponse ==
    [][(last'.op \in {"handleNoteCreate", "handleNoteUpdate",
                      "handleNoteDelete", "adapter"})
        => UNCHANGED <<notes, selectedNoteId>>]_vars

\* the adapter has carried out a delete and the note is still in the collection
C14_Witness ==
    /\ last.op = "adapter" /\ last.ok
    /\ reqs[last.rid].kind = "delete"
    /\ last.id \in Ids(notes)
    /\ last.id \notin Ids(remote)

\* C15: of two updates of one note that were both called before the response
\* of either had arrived and that both succeed, the one whose response is
\* applied last leaves its payload as that note in the collection, whichever
\* was called first.
C15_LastUpdateWins ==
    [][\A r \in 1..Len(reqs) :
          (/\ reqs[r].kind = "update" /\ reqs[r].phase = "ok"
           /\ reqs'[r].phase = "done"
           /\ \E p \in last.ovl : p[1] = r)
          => Row(SelectedNoteOf(notes', reqs[r].argId))
               = Row(reqs[r].argNote)]_vars

\* both responses have been applied, the one of the update called first being
\* the last: the note lacks the edit of the update called second
C15_Witness ==
    /\ last.op = "update" /\ last.ok /\ last.second
    /\ last.id \in Ids(notes)
    /\ LET e == SelectedNoteOf(notes, last.id)
       IN  e.title # "Edited" \/ e.category # "Work"

\* C16: an update whose note was deleted while the update was in flight is
\* still applied when it succeeds and puts a note with the deleted id back in
\* the collection; nothing checks that the note still exists.
C16_UpdateResurrects ==
    [][\A r \in 1..Len(reqs) :
          (/\ reqs[r].kind = "update" /\ reqs[r].phase = "ok"
           /\ reqs'[r].phase = "done"
           /\ reqs[r].argId \in Ids(reqs[r].capNotes)
           /\ reqs[r].argId \notin Ids(notes))
          => /\ reqs[r].argId \in Ids(notes')
             /\ Row(SelectedNoteOf(notes', reqs[r].argId))
                  = Row(reqs[r].argNote)]_vars

\* the response of an update has been applied after a successful delete of its
\* note was: the note is back in the collection and not in the remote table
C16_Witness ==
    /\ last.op = "update" /\ last.ok
    /\ last.id \notin Ids(last.notes0)
    /\ last.id \in Ids(notes)
    /\ last.id \notin Ids(remote)

DiffFields(a, b) ==
    {f \in {"id", "title", "content", "category", "created_at"} : a[f] # b[f]}

\* C17: every note the editor's handleChange passes to handleNoteUpdate differs
\* from the note of the collection that is selected in exactly one field, the
\* edited one; so an edit whose update failed is not carried by a later edit.
C17_OneFieldEdited ==
    [][(last'.op = "handleNoteUpdate")
        => Cardinality(DiffFields(reqs'[Len(reqs')].argNote, selectedNote)) = 1
      ]_vars

\* C18: applying the response of a successful delete changes selectedNoteId
\* only if the note selected at that moment is the deleted one: a selection
\* made while the delete was in flight is kept, and a deleted note that was not
\* selected when the delete was called but is selected now is deselected.
C18_DeleteSelectionAtApply ==
    [][\A r \in 1..Len(reqs) :
          (reqs[r].kind = "delete" /\ reqs[r].phase = "ok"
           /\ reqs'[r].phase = "done")
          => /\ selectedNoteId # reqs[r].argId
                   => selectedNoteId' = selectedNoteId
             /\ (selectedNoteId = reqs[r].argId
                 /\ reqs[r].capSel # reqs[r].argId)
                   => selectedNoteId' # reqs[r].argId]_vars

\* C19: of two creates that were both called before the response of either had
\* arrived and that both succeed, both new notes are in the collection once
\* both responses are applied.
C19_BothCreatesKept ==
    [][\A r \in 1..Len(reqs) :
          (reqs[r].kind = "create" /\ reqs[r].phase = "ok"
           /\ reqs'[r].phase = "done")
          => \A p \in last.ovl :
                p[1] = r => {p[2], reqs[r].data[1].id} \subseteq Ids(notes')
      ]_vars

RowsOf(ns) == [i \in 1..Len(ns) |-> Row(ns[i])]

\* C20: when every call ends before the next is made, the first being a load,
\* then after every response that is applied, of a call that succeeded or
\* failed, the collection holds the rows of the remote table: the same ids in
\* the same order, newest first, with the same field values.
C20_LocalIsRemote ==
    (variant = "remote" /\ serial /\ last.op \in Applied)
    => RowsOf(notes) = remote

\* C20, amended: the same after the response of a load that succeeded, and
\* after the response of any call, succeeded or failed, that the adapter took
\* up while the collection held the rows of the remote table.
C20_LocalIsRemoteOnceLoaded ==
    (/\ variant = "remote" /\ serial /\ last.op \in Applied
     /\ last.sync \/ (last.op = "load" /\ last.ok))
    => RowsOf(notes) = remote

\* a create made after a successful load, with calls one at a time, has been
\* applied to a collection that held notes
C20_Witness ==
    /\ variant = "remote" /\ serial
    /\ last.op = "create" /\ last.ok /\ last.sync
    /\ Len(notes) > 1

\* C21: loading is true from the mount until the response of the mount's load
\* has been handled, and false from then on in every later state, whether the
\* load succeeded or failed; so, the adapter answering, loading becomes false
\* in the end, and after a failed load the handlers can be called.
C21_LoadingUntilFirstLoad ==
    /\ [](variant = "remote" => (loading <=> reqs[1].phase # "done"))
    /\ [][~loading => ~loading']_vars
    /\ []((last.op = "load" /\ ~last.ok /\ CanIssue)
            => ENABLED handleNoteCreate)
    /\ (loading ~> ~loading)

\* the mount's load has failed and the failure has been handled: the loading
\* screen is gone while the remote table holds a row the collection lacks
C21_Witness ==
    /\ last.op = "load" /\ ~last.ok /\ last.rid = 1
    /\ ~loading
    /\ notes = <<>> /\ Len(remote) > 0

====
